---- MODULE Spec2Model ----
(***************************************************************************)
(* The two Ferret installers, public/install-arch.sh and                   *)
(* public/install-termux.sh, as one state machine.  A run is the execution *)
(* of one script under `set -eu`, one action per statement; the file       *)
(* system, the remote and the destination survive from one run to the      *)
(* next.                                                                   *)
(*                                                                         *)
(* A shell string is a sequence of chunks: "" is << >>, a literal is a     *)
(* one-chunk sequence and concatenation is \o.  A variable of the          *)
(* environment is [set, val]: an unset variable is not the empty string.   *)
(***************************************************************************)
EXTENDS Integers, Sequences, FiniteSets, TLC

\* ------------------------------------------------------------ bounds
MaxRuns == 2
MaxRemoteVer == 1

\* ------------------------------------------------------------ strings
Lit(s) == <<s>>
Unset == [set |-> FALSE, val |-> << >>]
Val(s) == [set |-> TRUE, val |-> s]
Empty == Val(<< >>)

\* ${v:-word}: word when v is unset or empty.
ColonDash(v, word) == IF v.set /\ v.val # << >> THEN v.val ELSE word
\* ${v-word}: word only when v is unset.
Dash(v, word) == IF v.set THEN v.val ELSE word
\* [ -z s ]
IsZeroLen(s) == s = << >>

\* A path is the sequence of its components, so that dirname is a prefix.
TermuxDefaultPrefix == <<"/data", "/data", "/com.termux", "/files", "/usr">>
DefaultRepo == Lit("https://github.com/Ferret-Language/Ferret.git")
DefaultRef == Lit("stable")
ForkRepo == Lit("https://example.org/fork/Ferret.git")
DevRef == Lit("dev")
\* A tag of the remotes: FERRET_REF may name a branch or a tag.
TagRef == Lit("v0.1.0")
\* The names that are branches on the remotes.
RemoteBranches == {DefaultRef, DevRef}
HomeDir == <<"/home", "/u">>
OptDir == <<"/opt", "/ferret">>
CustomPrefix == <<"/custom", "/usr">>
SrcOverride == <<"/work", "/ferret-src">>
StartDir == Lit("/start")

ArchSrcSuffix == <<"/.local", "/src", "/Ferret">>
TermuxSrcSuffix == Lit("/Ferret")
LocalSuffix == Lit("/.local")
UsrLocal == <<"/usr", "/local">>
\* dirname p
Dirname(p) == IF Len(p) <= 1 THEN Lit("/") ELSE SubSeq(p, 1, Len(p) - 1)

StaleDirs == {"bin/", "libs/", "gen/", "gen_debug/", "gen_keep/"}

\* ------------------------------------------------------------ inputs
Installers == {"arch", "termux"}
\* What uname -m reports on the machine.
MachineTypes == {"x86_64", "aarch64", "arm64", "armv7l"}
RootUid == 0
Uids == {RootUid, 1000}

\* PATH is held as the sequence of its entries, each a path.
ArchPath == Val(<< <<"/usr", "/bin">> >>)
TermuxPath == Val(<< TermuxDefaultPrefix \o Lit("/bin") >>)
TermuxPathWithOpt == Val(<< OptDir \o Lit("/bin"), TermuxDefaultPrefix \o Lit("/bin") >>)

MkEnv(r, f, s, d, h, p, t, c, x) ==
  [FERRET_REPO |-> r, FERRET_REF |-> f, FERRET_SRC_DIR |-> s, FERRET_INSTALL_DIR |-> d,
   HOME |-> h, PREFIX |-> p, TERMUX_VERSION |-> t, CC |-> c, PATH |-> x]

\* The environments a run is started with.  Each group varies the variables
\* that one part of the scripts reads, in every combination, with the others at
\* their defaults: the source directory, destination and HOME; the overrides of
\* the Source Acquirer; CC; a tag as FERRET_REF; and, in Termux, the variables of
\* the gate, the destination against PREFIX, and a PATH that already holds the
\* destination's bin.
ArchEnvs ==
  { MkEnv(Unset, Unset, s, d, h, Unset, Unset, Unset, ArchPath) :
      s \in {Unset, Val(SrcOverride)}, d \in {Unset, Empty, Val(OptDir)},
      h \in {Unset, Val(HomeDir)} }
  \cup
  { MkEnv(r, f, s, d, Val(HomeDir), Unset, Unset, Unset, ArchPath) :
      r \in {Unset, Val(ForkRepo)}, f \in {Unset, Val(DevRef)},
      s \in {Unset, Val(SrcOverride)}, d \in {Unset, Val(OptDir)} }
  \cup
  { MkEnv(Unset, f, Unset, Unset, Val(HomeDir), Unset, Unset, c, ArchPath) :
      f \in {Unset, Val(TagRef)}, c \in {Unset, Val(Lit("gcc"))} }

TermuxEnvs ==
  { MkEnv(Unset, Unset, Unset, Unset, Val(HomeDir), p, t, Unset, TermuxPath) :
      p \in {Unset, Empty, Val(TermuxDefaultPrefix), Val(CustomPrefix)},
      t \in {Unset, Empty, Val(Lit("0.118.0"))} }
  \cup
  { MkEnv(Unset, Unset, s, d, h, Val(TermuxDefaultPrefix), Val(Lit("0.118.0")), Unset,
          TermuxPath) :
      s \in {Unset, Val(SrcOverride)}, d \in {Unset, Val(OptDir)},
      h \in {Unset, Val(HomeDir)} }
  \cup
  { MkEnv(Unset, Unset, Unset, d, Val(HomeDir), p, Val(Lit("0.118.0")), Unset, x) :
      d \in {Unset, Empty, Val(OptDir), Val(TermuxDefaultPrefix), Val(CustomPrefix)},
      p \in {Unset, Empty, Val(TermuxDefaultPrefix), Val(CustomPrefix)},
      x \in {TermuxPath, TermuxPathWithOpt} }
  \cup
  { MkEnv(r, f, s, Unset, Val(HomeDir), Val(TermuxDefaultPrefix), Val(Lit("0.118.0")),
          Unset, TermuxPath) :
      r \in {Unset, Val(ForkRepo)}, f \in {Unset, Val(DevRef)},
      s \in {Unset, Val(SrcOverride)} }
  \cup
  { MkEnv(Unset, f, Unset, Unset, Val(HomeDir), Val(TermuxDefaultPrefix),
          Val(Lit("0.118.0")), c, TermuxPath) :
      f \in {Unset, Val(TagRef)}, c \in {Unset, Val(Lit("gcc"))} }

SrcPaths == {HomeDir \o ArchSrcSuffix, HomeDir \o TermuxSrcSuffix, SrcOverride}

NoCommit == << >>
\* The commit a remote holds on a ref at version ver of the remote.
CommitAt(url, ref, ver) == <<url, ref, ver>>

NoClone == [git |-> FALSE, origin |-> << >>, branch |-> << >>,
            tracking |-> NoCommit, head |-> NoCommit, dirty |-> FALSE, stale |-> {}]

ShUnset == [REPO |-> Unset, REF |-> Unset, SRC_DIR |-> Unset, DEST_DIR |-> Unset,
            default_prefix |-> Unset]

VARIABLES
  installer,   \* which script this machine runs
  uid,         \* the result of id -u
  archRelease, \* [ -f /etc/arch-release ]
  startEnv,    \* the environment the run inherited
  env,         \* the environment of the shell, as exported so far
  sh,          \* the shell variables the script assigns
  pc,          \* the statement the run is at
  exitStatus,  \* << >> while the run is going, then <<the exit status>>
  exitAt,      \* the statement at which the run ended
  log,         \* what the run wrote and the commands it ran, in order
  cwd,         \* the current working directory
  hadGit,      \* whether SRC_DIR/.git was a directory when the run reached line 37/18
  removed,     \* the directories the run's rm -rf found and removed
  buildEnv,    \* the environment go run tools/main.go was started with
  fs,          \* the directory at each candidate SRC_DIR
  installed,   \* the destinations holding bin/ferret
  remoteVer,   \* the version of the remotes
  runs,        \* the number of runs started so far
  prev,        \* how the run before this one ended and what it left (kept by RerunSame)
  machineType, \* the machine type of the host
  bflow        \* the state of the binary flow: release listing, workspace, download

vars == <<installer, uid, archRelease, startEnv, env, sh, pc, exitStatus, exitAt,
          log, cwd, hadGit, removed, buildEnv, fs, installed, remoteVer, runs, prev,
          machineType, bflow>>

machine == <<installer, uid, archRelease, startEnv, prev, machineType, bflow>>
world == <<fs, installed, remoteVer>>

Running == << >>
\* The statuses a failing command (or the shell under set -u) ends with.  The
\* scripts only tell zero from non-zero, so one non-zero status stands for all.
FailStatuses == {1}

\* An entry of the log: a line written to a stream, or a command with the status
\* it returned.
Stdout(v) == [k |-> "stdout", v |-> v, rc |-> 0]
Stderr(v) == [k |-> "stderr", v |-> v, rc |-> 0]
Cmd(v, rc) == [k |-> "cmd", v |-> v, rc |-> rc]

\* The binary flow before it has done anything.
NoAsset == << >>
BinIdle(assets) ==
  [assets |-> assets, arch |-> "none", selected |-> NoAsset,
   workspace |-> FALSE, made |-> FALSE, downloaded |-> FALSE, path |-> "none"]

\* The environment in which nothing is overridden.
PlainEnv(inst) ==
  IF inst = "arch"
    THEN MkEnv(Unset, Unset, Unset, Unset, Val(HomeDir), Unset, Unset, Unset, ArchPath)
    ELSE MkEnv(Unset, Unset, Unset, Unset, Val(HomeDir), Val(TermuxDefaultPrefix),
               Val(Lit("0.118.0")), Unset, TermuxPath)

Init ==
  /\ installer \in Installers
  /\ uid \in (IF installer = "arch" THEN Uids ELSE Uids \ {RootUid})
  /\ archRelease \in (IF installer = "arch" THEN BOOLEAN ELSE {FALSE})
  /\ startEnv \in (IF installer = "arch" THEN ArchEnvs ELSE TermuxEnvs)
  /\ env = startEnv
  /\ sh = ShUnset
  /\ pc = "gate"
  /\ exitStatus = Running
  /\ exitAt = "none"
  /\ log = << >>
  /\ cwd = StartDir
  /\ hadGit = FALSE
  /\ removed = {}
  /\ buildEnv = [FERRET_INSTALL_DIR |-> Unset, CC |-> Unset]
  /\ fs = [p \in SrcPaths |-> NoClone]
  /\ installed = {}
  /\ remoteVer = 0
  /\ runs = 1
  /\ prev = [ok |-> FALSE, env |-> startEnv, fs |-> fs, installed |-> installed,
             ver |-> remoteVer]
  \* the scripts never ask for the machine type: it is varied where nothing else is
  /\ machineType \in (IF startEnv = PlainEnv(installer) THEN MachineTypes ELSE {"x86_64"})
  /\ bflow = BinIdle({})

\* exit n, or the death of the shell under set -e / set -u.
Exit(status) ==
  /\ exitStatus' = <<status>>
  /\ exitAt' = pc
  /\ pc' = "exited"

Goto(label) ==
  /\ pc' = label
  /\ UNCHANGED <<exitStatus, exitAt>>

\* A statement that is one command under set -e: it is run, and its failure ends
\* the run with the command's status.
Simple(args, next) ==
  \/ log' = Append(log, Cmd(args, 0)) /\ Goto(next)
  \/ \E rc \in FailStatuses : log' = Append(log, Cmd(args, rc)) /\ Exit(rc)

NonEmpty(v) == v.set /\ v.val # << >>

\* What the shell writes when set -u meets an unset parameter.
UnsetMsg == Stderr(Lit("HOME: parameter not set"))

\* ------------------------------------------------------------ install-arch.sh
\* line 6: [ ! -f /etc/arch-release ]
ArchGateRefusesBug == archRelease
ArchGateRefuses == ~archRelease

\* lines 6-9
ArchGate ==
  /\ installer = "arch" /\ pc = "gate"
  /\ IF ArchGateRefuses
       THEN /\ log' = Append(log, Stderr(Lit("This installer is intended for Arch Linux.")))
            /\ Exit(1)
       ELSE /\ log' = log
            /\ Goto("config")
  /\ UNCHANGED <<machine, world, env, sh, cwd, hadGit, removed, buildEnv, runs>>

\* line 13: SRC_DIR="${FERRET_SRC_DIR:-${HOME}/.local/src/Ferret}"
ArchSrcDir(e) == ColonDash(e.FERRET_SRC_DIR, e.HOME.val \o ArchSrcSuffix)
\* line 14: DEST_DIR="${FERRET_INSTALL_DIR:-${HOME}/.local}"
ArchDestInitialBug(e) == e.HOME.val \o LocalSuffix
ArchDestInitial(e) == ColonDash(e.FERRET_INSTALL_DIR, e.HOME.val \o LocalSuffix)
\* ${HOME} is expanded, and must be set under set -u, only where the default is used.
ArchNeedsHome(e) == ~NonEmpty(e.FERRET_SRC_DIR) \/ ~NonEmpty(e.FERRET_INSTALL_DIR)

\* lines 11-14
ArchConfig ==
  /\ installer = "arch" /\ pc = "config"
  /\ IF ArchNeedsHome(env) /\ ~env.HOME.set
       THEN /\ log' = Append(log, UnsetMsg)
            /\ \E rc \in FailStatuses : Exit(rc)
            /\ sh' = sh
       ELSE /\ sh' = [sh EXCEPT !.REPO = Val(ColonDash(env.FERRET_REPO, DefaultRepo)),
                                !.REF = Val(ColonDash(env.FERRET_REF, DefaultRef)),
                                !.SRC_DIR = Val(ArchSrcDir(env)),
                                !.DEST_DIR = Val(ArchDestInitial(env))]
            /\ log' = log
            /\ Goto("destdefault")
  /\ UNCHANGED <<machine, world, env, cwd, hadGit, removed, buildEnv, runs>>

\* line 17: [ "${FERRET_INSTALL_DIR:-}" = "" ] && [ "$(id -u)" -eq 0 ]
ArchSystemWideBug(e, u) == u = RootUid
ArchSystemWide(e, u) == ColonDash(e.FERRET_INSTALL_DIR, << >>) = << >> /\ u = RootUid

\* lines 17-21
ArchDestDefault ==
  /\ installer = "arch" /\ pc = "destdefault"
  /\ sh' = IF ArchSystemWide(env, uid) THEN [sh EXCEPT !.DEST_DIR = Val(UsrLocal)] ELSE sh
  /\ log' = Append(log, Stdout(Lit("Installing Ferret to ") \o sh'.DEST_DIR.val))
  /\ Goto("deps")
  /\ UNCHANGED <<machine, world, env, cwd, hadGit, removed, buildEnv, runs>>

PacmanArgs == <<"pacman", "-S", "--needed", "--noconfirm",
                "base-devel", "git", "go", "clang", "binutils">>
PacmanManual == Lit("  sudo pacman -S base-devel git go clang binutils")

\* line 24: whether pacman is run directly, its failure fatal under set -e.
ArchDepsDirectBug == FALSE
ArchDepsDirect == uid = RootUid

\* line 29: `if ! sudo pacman ...; then` keeps a failure from set -e.
SudoFailureFatalBug == TRUE
SudoFailureFatal == FALSE

\* lines 24-34
ArchDeps ==
  /\ installer = "arch" /\ pc = "deps"
  /\
       IF ArchDepsDirect
         THEN Simple(PacmanArgs, "acquire")
         ELSE LET started(rc) == log \o
                    << Stdout(Lit("Note: This script may need sudo privileges to install packages.")),
                       Stdout(Lit("Installing dependencies...")),
                       Cmd(<<"sudo">> \o PacmanArgs, rc) >>
                  warning ==
                    << Stderr(Lit("Warning: Could not install packages. Please install manually:")),
                       Stderr(PacmanManual),
                       Stderr(Lit("Continuing anyway...")) >>
              IN  \/ log' = started(0) /\ Goto("acquire")
                  \/ \E rc \in FailStatuses :
                       IF SudoFailureFatal
                         THEN log' = started(rc) /\ Exit(rc)
                         ELSE log' = started(rc) \o warning /\ Goto("acquire")
  /\ UNCHANGED <<machine, world, env, sh, cwd, hadGit, removed, buildEnv, runs>>

\* ------------------------------------------------------------ install-termux.sh
\* line 4: [ -z "${TERMUX_VERSION-}" ] && [ "${PREFIX:-}" != "/data/data/com.termux/files/usr" ]
TermuxGateRefusesBug(e) ==
  IsZeroLen(Dash(e.TERMUX_VERSION, << >>)) \/ ColonDash(e.PREFIX, << >>) # TermuxDefaultPrefix
TermuxGateRefuses(e) ==
  IsZeroLen(Dash(e.TERMUX_VERSION, << >>)) /\ ColonDash(e.PREFIX, << >>) # TermuxDefaultPrefix

\* lines 4-7
TermuxGate ==
  /\ installer = "termux" /\ pc = "gate"
  /\ IF TermuxGateRefuses(env)
       THEN /\ log' = Append(log, Stderr(Lit("This installer is intended for Termux.")))
            /\ Exit(1)
       ELSE /\ log' = log
            /\ Goto("config")
  /\ UNCHANGED <<machine, world, env, sh, cwd, hadGit, removed, buildEnv, runs>>

\* line 11: SRC_DIR="${FERRET_SRC_DIR:-${HOME}/Ferret}"
TermuxSrcDir(e) == ColonDash(e.FERRET_SRC_DIR, e.HOME.val \o TermuxSrcSuffix)
\* line 12: DEST_DIR="${FERRET_INSTALL_DIR:-${PREFIX:-/data/data/com.termux/files/usr}}"
TermuxDestDirBug(e) ==
  ColonDash(e.PREFIX, ColonDash(e.FERRET_INSTALL_DIR, TermuxDefaultPrefix))
TermuxDestDir(e) ==
  ColonDash(e.FERRET_INSTALL_DIR, ColonDash(e.PREFIX, TermuxDefaultPrefix))

\* lines 9-12
TermuxConfig ==
  /\ installer = "termux" /\ pc = "config"
  /\ IF ~NonEmpty(env.FERRET_SRC_DIR) /\ ~env.HOME.set
       THEN /\ log' = Append(log, UnsetMsg)
            /\ \E rc \in FailStatuses : Exit(rc)
            /\ sh' = sh
       ELSE /\ sh' = [sh EXCEPT !.REPO = Val(ColonDash(env.FERRET_REPO, DefaultRepo)),
                                !.REF = Val(ColonDash(env.FERRET_REF, DefaultRef)),
                                !.SRC_DIR = Val(TermuxSrcDir(env)),
                                !.DEST_DIR = Val(TermuxDestDir(env))]
            /\ log' = log
            /\ Goto("pkg_update")
  /\ UNCHANGED <<machine, world, env, cwd, hadGit, removed, buildEnv, runs>>

\* line 14
TermuxPkgUpdate ==
  /\ installer = "termux" /\ pc = "pkg_update"
  /\ Simple(<<"pkg", "update", "-y">>, "pkg_upgrade")
  /\ UNCHANGED <<machine, world, env, sh, cwd, hadGit, removed, buildEnv, runs>>

\* line 15
TermuxPkgUpgrade ==
  /\ installer = "termux" /\ pc = "pkg_upgrade"
  /\ Simple(<<"pkg", "upgrade", "-y">>, "pkg_install")
  /\ UNCHANGED <<machine, world, env, sh, cwd, hadGit, removed, buildEnv, runs>>

\* line 16
TermuxPkgInstall ==
  /\ installer = "termux" /\ pc = "pkg_install"
  /\ Simple(<<"pkg", "install", "-y", "git", "golang", "clang", "binutils", "libxml2">>,
            "acquire")
  /\ UNCHANGED <<machine, world, env, sh, cwd, hadGit, removed, buildEnv, runs>>

\* ------------------------------------------------------------ both scripts
SrcDir == sh.SRC_DIR.val
Ref == sh.REF.val
Repo == sh.REPO.val
DestDir == sh.DEST_DIR.val

\* arch line 37, termux line 18: [ -d "${SRC_DIR}/.git" ]
HasGitDirBug(p) == FALSE
HasGitDir(p) == p \in SrcPaths /\ fs[p].git

AcquireTest ==
  /\ pc = "acquire"
  /\ hadGit' = (SrcDir \in SrcPaths /\ fs[SrcDir].git)
  /\ IF HasGitDir(SrcDir)
       THEN Goto("fetch")
       ELSE Goto(IF installer = "arch" THEN "mkdir" ELSE "clone")
  /\ UNCHANGED <<machine, world, env, sh, log, cwd, removed, buildEnv, runs>>

FetchArgs == <<"git", "-C">> \o SrcDir \o <<"fetch", "--depth", "1", "--tags", "origin">> \o Ref
ResetArgs == <<"git", "-C">> \o SrcDir \o <<"reset", "--hard", "origin/">> \o Ref
MkdirArgs == <<"mkdir", "-p">> \o Dirname(SrcDir)
CloneArgs == <<"git", "clone", "--depth", "1", "--branch">> \o Ref \o Repo \o SrcDir

\* arch line 38 ends in `|| true`; termux line 19 does not.
FetchTolerated(inst) == inst = "arch"

\* What a successful fetch of REF from origin leaves in the clone: the
\* remote-tracking ref of the cloned branch moves to the remote's commit; a ref
\* outside the clone's refspec lands in FETCH_HEAD only.
FetchedBug(c, ref) ==
  [c EXCEPT !.origin = Repo, !.tracking = CommitAt(Repo, ref, remoteVer)]

Fetched(c, ref) ==
  IF ref = c.branch
    THEN [c EXCEPT !.tracking = CommitAt(c.origin, ref, remoteVer)]
    ELSE c

\* arch line 38, termux line 19
Fetch ==
  /\ pc = "fetch"
  /\ \/ /\ log' = Append(log, Cmd(FetchArgs, 0))
        /\ fs' = [fs EXCEPT ![SrcDir] = Fetched(@, Ref)]
        /\ Goto("reset")
     \/ \E rc \in FailStatuses :
          /\ log' = Append(log, Cmd(FetchArgs, rc))
          /\ fs' = fs
          /\ IF FetchTolerated(installer) THEN Goto("reset") ELSE Exit(rc)
  /\ UNCHANGED <<machine, installed, remoteVer, env, sh, cwd, hadGit, removed, buildEnv, runs>>

\* arch lines 39 and 42, termux lines 20 and 22: git reset and git clone are plain
\* statements under set -e, so their failure ends the run.
AcquireFailureFatalBug == FALSE
AcquireFailureFatal == TRUE

\* origin/<ref> resolves in the clone
HasTracking(c, ref) == c.git /\ ref = c.branch /\ c.tracking # NoCommit

\* What git reset --hard origin/<ref> leaves: HEAD and the working tree at the
\* remote-tracking ref, local changes gone.
ResetHardBug(c) == [c EXCEPT !.dirty = FALSE]
ResetHard(c) == [c EXCEPT !.head = c.tracking, !.dirty = FALSE]

\* arch line 39, termux line 20
Reset ==
  /\ pc = "reset"
  /\ \/ /\ HasTracking(fs[SrcDir], Ref)
        /\ log' = Append(log, Cmd(ResetArgs, 0))
        /\ fs' = [fs EXCEPT ![SrcDir] = ResetHard(@)]
        /\ Goto("cd")
     \/ \E rc \in FailStatuses :
          /\ log' = Append(log, Cmd(ResetArgs, rc))
          /\ fs' = fs
          /\ IF AcquireFailureFatal THEN Exit(rc) ELSE Goto("cd")
  /\ UNCHANGED <<machine, installed, remoteVer, env, sh, cwd, hadGit, removed, buildEnv, runs>>

\* arch line 41
Mkdir ==
  /\ installer = "arch" /\ pc = "mkdir"
  /\ Simple(MkdirArgs, "clone")
  /\ UNCHANGED <<machine, world, env, sh, cwd, hadGit, removed, buildEnv, runs>>

\* What git clone --depth 1 --branch ref url leaves at the path.
\* On a branch the clone tracks it as origin/<ref>; on a tag HEAD is detached at
\* the tag's commit, which upstream pushes do not move, and there is no origin/<ref>.
Cloned(url, ref) ==
  IF ref \in RemoteBranches
    THEN [git |-> TRUE, origin |-> url, branch |-> ref,
          tracking |-> CommitAt(url, ref, remoteVer),
          head |-> CommitAt(url, ref, remoteVer), dirty |-> FALSE, stale |-> {}]
    ELSE [git |-> TRUE, origin |-> url, branch |-> << >>,
          tracking |-> NoCommit,
          head |-> CommitAt(url, ref, 0), dirty |-> FALSE, stale |-> {}]

\* arch line 42, termux line 22
Clone ==
  /\ pc = "clone"
  /\ \/ /\ SrcDir \in SrcPaths /\ fs[SrcDir] = NoClone
        /\ log' = Append(log, Cmd(CloneArgs, 0))
        /\ fs' = [fs EXCEPT ![SrcDir] = Cloned(Repo, Ref)]
        /\ Goto("cd")
     \/ \E rc \in FailStatuses :
          /\ log' = Append(log, Cmd(CloneArgs, rc))
          /\ fs' = fs
          /\ IF AcquireFailureFatal THEN Exit(rc) ELSE Goto("cd")
  /\ UNCHANGED <<machine, installed, remoteVer, env, sh, cwd, hadGit, removed, buildEnv, runs>>

\* arch lines 45-49, termux lines 25-29: the statement after cd is the cleanup.
AfterCdBug == "export"
AfterCd == "clean"

\* arch line 45, termux line 25: cd is a plain statement under set -e, so its
\* failure ends the run.
CdFailureFatalBug == FALSE
CdFailureFatal == TRUE

\* arch line 45, termux line 25
ChangeDir ==
  /\ pc = "cd"
  /\ \/ /\ log' = Append(log, Cmd(<<"cd">> \o SrcDir, 0))
        /\ cwd' = SrcDir
        /\ Goto(AfterCd)
     \/ \E rc \in FailStatuses :
          /\ log' = Append(log, Cmd(<<"cd">> \o SrcDir, rc))
          /\ cwd' = cwd
          /\ IF CdFailureFatal THEN Exit(rc) ELSE Goto(AfterCd)
  /\ UNCHANGED <<machine, world, env, sh, hadGit, removed, buildEnv, runs>>

RmArgsBug == <<"rm", "-rf", "bin/", "libs/", "gen/", "gen_debug/">>
RmArgs == <<"rm", "-rf", "bin/", "libs/", "gen/", "gen_debug/", "gen_keep/">>
\* The operands of rm, after its options.
RmTargets == {RmArgs[j] : j \in 3..Len(RmArgs)}

\* arch lines 48-49, termux lines 28-29: the paths are relative to the working
\* directory.  rm -f ignores what is missing, so it can fail only on what exists.
Clean ==
  /\ pc = "clean"
  /\ \/ /\ log' = log \o <<Stdout(Lit("Cleaning previous builds...")), Cmd(RmArgs, 0)>>
        /\ fs' = IF cwd \in SrcPaths THEN [fs EXCEPT ![cwd].stale = @ \ RmTargets] ELSE fs
        /\ removed' = IF cwd \in SrcPaths THEN fs[cwd].stale \cap RmTargets ELSE {}
        /\ Goto("export")
     \/ \E rc \in FailStatuses :
          /\ cwd \in SrcPaths /\ fs[cwd].stale \cap RmTargets # {}
          /\ log' = log \o <<Stdout(Lit("Cleaning previous builds...")), Cmd(RmArgs, rc)>>
          /\ fs' = fs
          /\ removed' = removed
          /\ Exit(rc)
  /\ UNCHANGED <<machine, installed, remoteVer, env, sh, cwd, hadGit, buildEnv, runs>>

\* export FERRET_INSTALL_DIR="${DEST_DIR}"; export CC=clang
ExportedEnvBug(e, dest) == [e EXCEPT !.CC = Val(Lit("clang"))]
ExportedEnv(e, dest) == [e EXCEPT !.FERRET_INSTALL_DIR = Val(dest), !.CC = Val(Lit("clang"))]

\* arch lines 52-53, termux lines 32-33
Export ==
  /\ pc = "export"
  /\ env' = ExportedEnv(env, DestDir)
  /\ Goto("build")
  /\ UNCHANGED <<machine, world, sh, log, cwd, hadGit, removed, buildEnv, runs>>

GoArgs == <<"go", "run", "tools/main.go">>

\* What the build entrypoint, an external program, may leave in the source tree.
BuildOutputs == {{}, StaleDirs}

\* arch lines 55-56, termux lines 35-36: go run tools/main.go, in the working
\* directory, with the exported environment.  The entrypoint is opaque: whether
\* it leaves the binary under the destination is its own affair.
Build ==
  /\ pc = "build"
  /\ buildEnv' = [FERRET_INSTALL_DIR |-> env.FERRET_INSTALL_DIR, CC |-> env.CC]
  /\ \E out \in BuildOutputs, placed \in BOOLEAN :
       /\ fs' = IF cwd \in SrcPaths THEN [fs EXCEPT ![cwd].stale = out] ELSE fs
       /\ installed' = IF placed THEN installed \cup {env.FERRET_INSTALL_DIR.val} ELSE installed
       /\ \/ /\ log' = log \o <<Stdout(Lit("Building Ferret...")), Cmd(GoArgs, 0)>>
             /\ Goto(IF installer = "arch" THEN "final" ELSE "advise")
          \/ \E rc \in FailStatuses :
               /\ log' = log \o <<Stdout(Lit("Building Ferret...")), Cmd(GoArgs, rc)>>
               /\ Exit(rc)
  /\ UNCHANGED <<machine, remoteVer, env, sh, cwd, hadGit, removed, runs>>

\* arch lines 58-59 (the check mark of line 59 is spelled out)
ArchFinal ==
  /\ installer = "arch" /\ pc = "final"
  /\ log' = log \o <<Stdout(<< >>), Stdout(Lit("[check mark] Installation complete!"))>>
  /\ Exit(0)
  /\ UNCHANGED <<machine, world, env, sh, cwd, hadGit, removed, buildEnv, runs>>

\* termux line 40
TermuxInPath(dest, e, default) == dest = ColonDash(e.PREFIX, default) \/ dest = default

\* termux lines 37-48
TermuxAdvise ==
  /\ installer = "termux" /\ pc = "advise"
  /\ sh' = [sh EXCEPT !.default_prefix = Val(TermuxDefaultPrefix)]
  /\ log' = log \o <<Stdout(<< >>)>> \o
       (IF TermuxInPath(DestDir, env, TermuxDefaultPrefix)
          THEN << Stdout(Lit("[check mark] The 'ferret' command should be available now (") \o DestDir
                         \o Lit("/bin is in PATH by default in Termux)")),
                  Stdout(Lit("  If 'ferret' doesn't work, try: exec $SHELL")) >>
          ELSE << Stdout(Lit("To use the 'ferret' command, add to your PATH:")),
                  Stdout(Lit("  export PATH=\"") \o DestDir \o Lit("/bin:$PATH\"")),
                  Stdout(Lit("Or add to ~/.bashrc:")),
                  Stdout(Lit("  echo 'export PATH=\"") \o DestDir
                         \o Lit("/bin:$PATH\"' >> ~/.bashrc")) >>)
  /\ Exit(0)
  /\ UNCHANGED <<machine, world, env, cwd, hadGit, removed, buildEnv, runs>>

\* ------------------------------------------------------------ the machine between runs
\* The script is started again on the same machine, with the same environment
\* but for FERRET_REPO, which the user may have changed.
Rerun ==
  /\ pc = "exited" /\ runs < MaxRuns
  /\ runs' = runs + 1
  /\ \E r \in {Unset, Val(ForkRepo)} : startEnv' = [startEnv EXCEPT !.FERRET_REPO = r]
  /\ env' = startEnv'
  /\ sh' = ShUnset
  /\ pc' = "gate"
  /\ exitStatus' = Running
  /\ exitAt' = "none"
  /\ log' = << >>
  /\ cwd' = StartDir
  /\ hadGit' = FALSE
  /\ removed' = {}
  /\ buildEnv' = [FERRET_INSTALL_DIR |-> Unset, CC |-> Unset]
  /\ UNCHANGED <<installer, uid, archRelease, world, prev, machineType, bflow>>

\* The script is started again with the configuration unchanged; how the run
\* before ended, and what it left, is kept for comparison.
RerunSame ==
  /\ pc = "exited" /\ runs < MaxRuns
  /\ runs' = runs + 1
  /\ env' = startEnv
  /\ sh' = ShUnset
  /\ pc' = "gate"
  /\ exitStatus' = Running
  /\ exitAt' = "none"
  /\ log' = << >>
  /\ cwd' = StartDir
  /\ hadGit' = FALSE
  /\ removed' = {}
  /\ buildEnv' = [FERRET_INSTALL_DIR |-> Unset, CC |-> Unset]
  /\ prev' = [ok |-> exitStatus = <<0>>, env |-> startEnv, fs |-> fs,
              installed |-> installed, ver |-> remoteVer]
  /\ UNCHANGED <<installer, uid, archRelease, startEnv, world, machineType, bflow>>

\* Upstream pushes to the branches of the remotes.  Only clone and fetch read the
\* remote, so a push during a run is a push before the run's clone or fetch or
\* after it: pushes between runs, here as a later run is about to start, cover both.
RemotePush ==
  /\ pc = "gate" /\ runs > 1 /\ remoteVer < MaxRemoteVer
  /\ remoteVer' = remoteVer + 1
  /\ UNCHANGED <<machine, env, sh, pc, exitStatus, exitAt, log, cwd, hadGit, removed, buildEnv,
                 fs, installed, runs>>

\* Between runs the user edits tracked files of a clone the earlier run left.
LocalEdit ==
  /\ pc = "gate" /\ runs > 1
  /\ \E p \in SrcPaths :
       /\ fs[p].git /\ ~fs[p].dirty
       /\ fs' = [fs EXCEPT ![p].dirty = TRUE]
  /\ UNCHANGED <<machine, env, sh, pc, exitStatus, exitAt, log, cwd, hadGit, removed, buildEnv,
                 installed, remoteVer, runs>>

\* One statement of the script that is running.
Step ==
  \/ ArchGate
  \/ ArchConfig
  \/ ArchDestDefault
  \/ ArchDeps
  \/ TermuxGate
  \/ TermuxConfig
  \/ TermuxPkgUpdate
  \/ TermuxPkgUpgrade
  \/ TermuxPkgInstall
  \/ AcquireTest
  \/ Fetch
  \/ Reset
  \/ Mkdir
  \/ Clone
  \/ ChangeDir
  \/ Clean
  \/ Export
  \/ Build
  \/ ArchFinal
  \/ TermuxAdvise

Next ==
  \/ Step
  \/ Rerun
  \/ RemotePush

Spec == Init /\ [][Next]_vars

\* The same installer run again and again with one configuration, the clone
\* edited and the remote pushed to in between.
NextRepeat ==
  \/ Step
  \/ RerunSame
  \/ RemotePush
  \/ LocalEdit

SpecRepeat == Init /\ [][NextRepeat]_vars

\* ------------------------------------------------------------ the binary flow
\* The installer that fetches a prebuilt release is described by the design
\* document only (sections 4.1, 4.4, 4.5, 5, 7); what follows is modelled from it.

\* 4.1: x86_64 -> AMD64, aarch64 | arm64 -> ARM64, anything else unsupported.
ArchOfBug(m) ==
  CASE m = "x86_64" -> "AMD64"
    [] OTHER -> "ARM64"

ArchOf(m) ==
  CASE m = "x86_64" -> "AMD64"
    [] m \in {"aarch64", "arm64"} -> "ARM64"
    [] OTHER -> "UNSUPPORTED"

\* An asset of a release is named for an operating system and an architecture.
LinuxAmd64 == <<"linux", "amd64">>
LinuxArm64 == <<"linux", "arm64">>
DarwinArm64 == <<"darwin", "arm64">>
AssetSets == SUBSET {LinuxAmd64, LinuxArm64, DarwinArm64}
ArchTag(a) == IF a = "AMD64" THEN "amd64" ELSE "arm64"

\* 4.4: the assets whose name encodes linux-<arch> for the detected architecture;
\* none is a failure, never another architecture's asset.
MatchingBug(assets, a) ==
  IF <<"linux", ArchTag(a)>> \in assets THEN {<<"linux", ArchTag(a)>>}
  ELSE {x \in assets : x[1] = "linux"}
Matching(assets, a) == {x \in assets : x = <<"linux", ArchTag(a)>>}

\* 5, 7: the exit paths on which the workspace is removed.
ReleasedOnBug == {"normal", "error"}
ReleasedOn == {"normal", "error", "signal"}

BinDest(e) == ColonDash(e.FERRET_INSTALL_DIR, e.HOME.val \o LocalSuffix)

InitBinary ==
  /\ installer = "binary"
  /\ uid \in Uids \ {RootUid}
  /\ archRelease = FALSE
  /\ startEnv \in { MkEnv(Unset, Unset, Unset, d, Val(HomeDir), Unset, Unset, Unset, ArchPath) :
                      d \in {Unset, Val(OptDir)} }
  /\ env = startEnv
  /\ sh = ShUnset
  /\ pc = "gate"
  /\ exitStatus = Running
  /\ exitAt = "none"
  /\ log = << >>
  /\ cwd = StartDir
  /\ hadGit = FALSE
  /\ removed = {}
  /\ buildEnv = [FERRET_INSTALL_DIR |-> Unset, CC |-> Unset]
  /\ fs = [p \in SrcPaths |-> NoClone]
  /\ installed = {}
  /\ remoteVer = 0
  /\ runs = 1
  /\ prev = [ok |-> FALSE, env |-> startEnv, fs |-> fs, installed |-> installed,
             ver |-> remoteVer]
  /\ machineType \in MachineTypes
  /\ \E assets \in AssetSets : bflow = BinIdle(assets)

\* The run ends on one of the three exit paths; the workspace goes with it.
BinExit(status, path) ==
  /\ Exit(status)
  /\ bflow' = [bflow EXCEPT !.workspace = IF path \in ReleasedOn THEN FALSE ELSE @,
                            !.path = path]

BinFrame == UNCHANGED <<installer, uid, archRelease, startEnv, prev, machineType,
                        env, sh, cwd, hadGit, removed, buildEnv, fs, remoteVer, runs>>

\* 4.1: the architecture is detected before anything else is done.
BinDetect ==
  /\ installer = "binary" /\ pc = "gate"
  /\ IF ArchOf(machineType) = "UNSUPPORTED"
       THEN /\ log' = Append(log, Stderr(<<"Unsupported architecture: ", machineType>>))
            /\ BinExit(1, "error")
       ELSE /\ log' = log
            /\ bflow' = [bflow EXCEPT !.arch = ArchOf(machineType)]
            /\ Goto("b_workspace")
  /\ BinFrame /\ UNCHANGED installed

\* 3: the workspace is a directory made for this run.
BinWorkspace ==
  /\ installer = "binary" /\ pc = "b_workspace"
  /\ \/ /\ log' = Append(log, Cmd(<<"mktemp", "-d">>, 0))
        /\ bflow' = [bflow EXCEPT !.workspace = TRUE, !.made = TRUE]
        /\ Goto("b_metadata")
     \/ \E rc \in FailStatuses :
          /\ log' = Append(log, Cmd(<<"mktemp", "-d">>, rc))
          /\ BinExit(rc, "error")
  /\ BinFrame /\ UNCHANGED installed

\* 4.4: the release metadata endpoint is queried for the latest release.
BinMetadata ==
  /\ installer = "binary" /\ pc = "b_metadata"
  /\ \/ /\ log' = Append(log, Cmd(<<"fetch", "releases/latest">>, 0))
        /\ bflow' = bflow
        /\ Goto("b_select")
     \/ \E rc \in FailStatuses :
          /\ log' = Append(log, Cmd(<<"fetch", "releases/latest">>, rc))
          /\ BinExit(rc, "error")
  /\ BinFrame /\ UNCHANGED installed

\* 4.4: the asset for the detected architecture, or ReleaseNotFound.
BinSelect ==
  /\ installer = "binary" /\ pc = "b_select"
  /\ LET found == Matching(bflow.assets, bflow.arch)
     IN  IF found = {}
           THEN /\ log' = Append(log, Stderr(<<"ReleaseNotFound: ", bflow.arch,
                                                " see the releases page">>))
                /\ BinExit(1, "error")
           ELSE /\ log' = log
                /\ \E x \in found : bflow' = [bflow EXCEPT !.selected = x]
                /\ Goto("b_download")
  /\ BinFrame /\ UNCHANGED installed

\* 4.4: the asset is downloaded into the workspace; a failed transfer is fatal.
BinDownload ==
  /\ installer = "binary" /\ pc = "b_download"
  /\ \/ /\ log' = Append(log, Cmd(<<"download">> \o bflow.selected, 0))
        /\ bflow' = [bflow EXCEPT !.downloaded = TRUE]
        /\ Goto("b_commit")
     \/ \E rc \in FailStatuses :
          /\ log' = Append(log, Cmd(<<"download">> \o bflow.selected, rc))
          /\ BinExit(rc, "error")
  /\ BinFrame /\ UNCHANGED installed

\* 4.5: the archive is extracted in the workspace and the binary copied under
\* <destination>/bin; an archive without the binary is InstallFailure.
BinCommit ==
  /\ installer = "binary" /\ pc = "b_commit"
  /\ \/ /\ log' = Append(log, Cmd(<<"install">> \o BinDest(env), 0))
        /\ installed' = installed \cup {BinDest(env)}
        /\ bflow' = bflow
        /\ Goto("b_advise")
     \/ /\ log' = Append(log, Stderr(<<"InstallFailure: ">> \o BinDest(env)))
        /\ installed' = installed
        /\ BinExit(1, "error")
  /\ BinFrame

\* 4.6, and the normal end of the run.
BinAdvise ==
  /\ installer = "binary" /\ pc = "b_advise"
  /\ log' = Append(log, Stdout(Lit("export PATH=\"") \o BinDest(env) \o Lit("/bin:$PATH\"")))
  /\ BinExit(0, "normal")
  /\ BinFrame /\ UNCHANGED installed

\* 5: a signal ends the run wherever it is.
BinInterrupt ==
  /\ installer = "binary" /\ pc # "exited"
  /\ log' = log
  /\ \E rc \in FailStatuses : BinExit(rc, "signal")
  /\ BinFrame /\ UNCHANGED installed

NextBinary ==
  \/ BinDetect
  \/ BinWorkspace
  \/ BinMetadata
  \/ BinSelect
  \/ BinDownload
  \/ BinCommit
  \/ BinAdvise
  \/ BinInterrupt

SpecBinary == InitBinary /\ [][NextBinary]_vars

\* ------------------------------------------------------------ reading the log
Idx == 1..Len(log)
Tokens(e) == {e.v[j] : j \in 1..Len(e.v)}
IsCmd(e, w) == e.k = "cmd" /\ e.v[1] = w
IsFetch(e) == IsCmd(e, "git") /\ "fetch" \in Tokens(e)
IsReset(e) == IsCmd(e, "git") /\ "reset" \in Tokens(e)
IsClone(e) == IsCmd(e, "git") /\ "clone" \in Tokens(e)
IsBuild(e) == IsCmd(e, "go")
Failed(e) == e.k = "cmd" /\ e.rc # 0

ExitedZero == pc = "exited" /\ exitStatus = <<0>>
ExitedNonZero == pc = "exited" /\ exitStatus # Running /\ exitStatus[1] # 0
BuildInvoked == \E i \in Idx : IsBuild(log[i])

ArchGateMsg == Lit("This installer is intended for Arch Linux.")
TermuxGateMsg == Lit("This installer is intended for Termux.")

\* The statements of the Source Acquirer and those after it.
AcquirerPcs == {"fetch", "reset", "mkdir", "clone"}
AfterAcquirerPcs == {"cd", "clean", "export", "build", "final", "advise"}
ReachedAcquirer ==
  \/ pc \in AcquirerPcs \cup AfterAcquirerPcs
  \/ pc = "exited" /\ exitAt \in AcquirerPcs \cup AfterAcquirerPcs
AcquirerDone ==
  \/ pc \in AfterAcquirerPcs
  \/ pc = "exited" /\ exitAt \in AfterAcquirerPcs

\* ------------------------------------------------------------ C1
\* C1: in the Arch installer, when /etc/arch-release is not a file the run ends at
\* the gate with a non-zero status, its whole trace being the one line naming Arch
\* Linux on the error stream (nothing else written, run, exported or entered);
\* when the marker is there the run never ends at the gate.
C1_ArchGate ==
  (installer = "arch" /\ pc # "gate") =>
    IF ~archRelease
      THEN /\ ExitedNonZero /\ exitAt = "gate"
           /\ log = <<Stderr(ArchGateMsg)>>
           /\ env = startEnv /\ sh = ShUnset /\ cwd = StartDir
           /\ ~BuildInvoked
      ELSE exitAt # "gate"

C1_Witness ==
  installer = "arch" /\ ~archRelease /\ pc = "exited" /\ runs = 2

\* ------------------------------------------------------------ C2
\* The refusal condition as the claim words it.
TermuxOutside(e) ==
  /\ (~e.TERMUX_VERSION.set \/ e.TERMUX_VERSION.val = << >>)
  /\ ~(e.PREFIX.set /\ e.PREFIX.val = TermuxDefaultPrefix)

\* C2: the Termux installer ends at the gate (non-zero status, the one line naming
\* Termux on the error stream and nothing else) exactly when TERMUX_VERSION is
\* unset or empty and PREFIX is not /data/data/com.termux/files/usr; in every other
\* combination the run passes the gate.
C2_TermuxGate ==
  (installer = "termux" /\ pc # "gate") =>
    IF TermuxOutside(startEnv)
      THEN /\ ExitedNonZero /\ exitAt = "gate"
           /\ log = <<Stderr(TermuxGateMsg)>>
           /\ env = startEnv /\ sh = ShUnset /\ cwd = StartDir
           /\ ~BuildInvoked
      ELSE exitAt # "gate"

C2_Witness ==
  /\ installer = "termux" /\ pc = "exited" /\ exitAt = "gate"
  /\ startEnv.TERMUX_VERSION = Empty /\ startEnv.PREFIX = Val(CustomPrefix)

C2_WitnessPass ==
  /\ installer = "termux" /\ pc = "pkg_update"
  /\ ~startEnv.TERMUX_VERSION.set /\ startEnv.PREFIX = Val(TermuxDefaultPrefix)

\* ------------------------------------------------------------ C3
\* The stage an entry of the log belongs to: 1 the gate and the resolution of the
\* destination, 2 the dependency install, 3 source acquisition, 4 the cleanup,
\* 5 the build, 6 the final output.
DepsLines == {"Note: This script may need sudo privileges to install packages.",
              "Installing dependencies...",
              "Warning: Could not install packages. Please install manually:",
              "  sudo pacman -S base-devel git go clang binutils",
              "Continuing anyway..."}
StageOf(e) ==
  IF e.k = "cmd"
    THEN CASE e.v[1] \in {"pacman", "sudo", "pkg"} -> 2
           [] e.v[1] \in {"git", "mkdir"} -> 3
           [] e.v[1] \in {"cd", "rm"} -> 4
           [] e.v[1] = "go" -> 5
    ELSE IF e.v = << >> THEN 6
    ELSE CASE e.v \in {ArchGateMsg, TermuxGateMsg, UnsetMsg.v} -> 1
           [] e.v[1] = "Installing Ferret to " -> 1
           [] e.v[1] \in DepsLines -> 2
           [] e.v[1] = "Cleaning previous builds..." -> 4
           [] e.v[1] = "Building Ferret..." -> 5
           [] OTHER -> 6

\* The failures the scripts go on after: sudo pacman (arch line 29) and fetch.
Tolerable(e) == IsCmd(e, "sudo") \/ IsFetch(e)

GatePassed ==
  IF installer = "arch" THEN archRelease ELSE ~TermuxOutside(startEnv)

\* C3: in every run of either installer the log is ordered by stage (gate,
\* dependency install, source acquisition, cleanup, build, final output); an entry
\* of a stage is there only if the gate passed and a command of every earlier stage
\* ran before it, each ended successfully or with a tolerated failure; and a run
\* that exits 0 has run every stage, the acquisition being a clone or a fetch
\* followed by a reset.  (The log being ordered, "before the entry" is "anywhere in
\* the log", and it is enough to look below the stage of the last entry.)
C3_StageOrder ==
  LET st == [i \in Idx |-> StageOf(log[i])]
      top == IF log = << >> THEN 1 ELSE st[Len(log)]
      ran == {st[i] : i \in {j \in Idx : log[j].k = "cmd"}}
  IN  /\ \A i \in 1..(Len(log) - 1) : st[i] <= st[i + 1]
      /\ top >= 2 =>
           /\ GatePassed
           /\ \A s \in 2..(top - 1) : s \in ran
           /\ \A j \in Idx : (Failed(log[j]) /\ st[j] < top) => Tolerable(log[j])
      /\ ExitedZero =>
           /\ top = 6 /\ (2..5) \subseteq ran
           /\ \E i \in Idx : IsCmd(log[i], "rm")
           /\ \/ \E i \in Idx : IsClone(log[i])
              \/ \E i, j \in Idx : i < j /\ IsFetch(log[i]) /\ IsReset(log[j])

C3_Witness ==
  /\ ExitedZero /\ hadGit
  /\ \E i \in Idx : IsFetch(log[i]) /\ Failed(log[i])

\* ------------------------------------------------------------ C4
\* The destination by the precedence the claim gives: the override when one is
\* given (a non-empty FERRET_INSTALL_DIR), else the default of the privilege on
\* Arch, else the prefix of Termux.
ExpectedDest ==
  IF NonEmpty(startEnv.FERRET_INSTALL_DIR) THEN startEnv.FERRET_INSTALL_DIR.val
  ELSE IF installer = "arch"
    THEN (IF uid = 0 THEN UsrLocal ELSE startEnv.HOME.val \o <<"/.local">>)
  ELSE IF startEnv.PREFIX.set /\ startEnv.PREFIX.val # << >>
    THEN startEnv.PREFIX.val
  ELSE TermuxDefaultPrefix

\* C4: whenever the build entrypoint has been invoked, the FERRET_INSTALL_DIR it was
\* given is the override when a non-empty one was inherited, otherwise on Arch
\* /usr/local for uid 0 and $HOME/.local for any other uid, otherwise on Termux
\* PREFIX, or /data/data/com.termux/files/usr when PREFIX is unset or empty.
C4_DestPrecedence ==
  BuildInvoked => buildEnv.FERRET_INSTALL_DIR = Val(ExpectedDest)

C4_Witness ==
  /\ BuildInvoked /\ installer = "arch" /\ uid = RootUid
  /\ startEnv.FERRET_INSTALL_DIR = Val(OptDir)
  /\ buildEnv.FERRET_INSTALL_DIR = Val(OptDir)

C4_WitnessTermux ==
  /\ BuildInvoked /\ installer = "termux"
  /\ startEnv.FERRET_INSTALL_DIR = Empty /\ startEnv.PREFIX = Empty
  /\ buildEnv.FERRET_INSTALL_DIR = Val(TermuxDefaultPrefix)

\* ------------------------------------------------------------ C5
\* The Arch run has resolved its destination (lines 14-19 are behind it).
ArchDestResolved == installer = "arch" /\ sh.DEST_DIR.set /\ pc # "destdefault"
\* The destination is the default of the privilege, not a value the user gave.
PrivilegeDefaultApplied ==
  /\ ArchDestResolved /\ uid = RootUid
  /\ DestDir = UsrLocal /\ startEnv.FERRET_INSTALL_DIR.val # UsrLocal

\* C5 as claimed: the Arch installer run as root applies the default /usr/local
\* only when FERRET_INSTALL_DIR is not set at all (refuted: it applies it when
\* FERRET_INSTALL_DIR is set to the empty string).
C5_Original ==
  PrivilegeDefaultApplied => ~startEnv.FERRET_INSTALL_DIR.set

\* C5 amended: the Arch installer run as root applies the default /usr/local exactly
\* when FERRET_INSTALL_DIR is unset or empty; set to a non-empty value, the
\* destination is that value.
C5_Amended ==
  (ArchDestResolved /\ uid = RootUid) =>
    /\ PrivilegeDefaultApplied <=> ~NonEmpty(startEnv.FERRET_INSTALL_DIR)
    /\ NonEmpty(startEnv.FERRET_INSTALL_DIR) => DestDir = startEnv.FERRET_INSTALL_DIR.val

C5_Witness ==
  /\ ArchDestResolved /\ uid = RootUid /\ startEnv.FERRET_INSTALL_DIR = Val(OptDir)
  /\ DestDir = OptDir /\ pc = "deps"

\* ------------------------------------------------------------ C6
SudoFailedAt(i) == IsCmd(log[i], "sudo") /\ Failed(log[i])

\* C6: in the Arch installer run by a non-root user, after a failed sudo pacman the
\* run has not ended at the dependency step: the next lines are the warning on the
\* error stream, the manual command among them, the run is at the Source Acquirer
\* or beyond, and when it has ended with every later command successful its exit
\* status is 0.
C6_SudoFailureTolerated ==
  (installer = "arch" /\ uid # RootUid) =>
    \A i \in Idx : SudoFailedAt(i) =>
      /\ pc \in AcquirerPcs \cup AfterAcquirerPcs \cup {"acquire", "exited"}
      /\ pc = "exited" => exitAt \in AcquirerPcs \cup AfterAcquirerPcs
      /\ Len(log) >= i + 3
      /\ \A j \in (i + 1)..(i + 3) : log[j].k = "stderr"
      /\ \E j \in (i + 1)..(i + 3) : log[j].v = PacmanManual
      /\ (pc = "exited" /\ \A j \in (i + 1)..Len(log) : ~Failed(log[j])) => exitStatus = <<0>>

C6_Witness ==
  /\ installer = "arch" /\ uid # RootUid /\ ExitedZero
  /\ \E i \in Idx : SudoFailedAt(i)

\* ------------------------------------------------------------ C7
\* C7: in the Arch installer run as root no command is run through sudo, a run past
\* the dependency step has run pacman itself, and a failed pacman is the last entry
\* of the log: the run ended there with a non-zero status, before any git, cleanup
\* or build command.
C7_RootPacmanFatal ==
  (installer = "arch" /\ uid = RootUid) =>
    /\ \A i \in Idx : ~IsCmd(log[i], "sudo")
    /\ (pc \in AcquirerPcs \cup AfterAcquirerPcs \cup {"acquire"}) =>
         \E i \in Idx : log[i] = Cmd(PacmanArgs, 0)
    /\ \A i \in Idx : (IsCmd(log[i], "pacman") /\ Failed(log[i])) =>
         /\ ExitedNonZero /\ exitAt = "deps"
         /\ i = Len(log)
         /\ \A j \in Idx : ~(log[j].k = "cmd" /\ log[j].v[1] \in {"git", "mkdir", "cd", "rm", "go"})

C7_Witness ==
  /\ installer = "arch" /\ uid = RootUid /\ pc = "exited" /\ exitAt = "deps"
  /\ \E i \in Idx : IsCmd(log[i], "pacman") /\ Failed(log[i])

\* ------------------------------------------------------------ C8
TermuxPkgPcs == {"pkg_update", "pkg_upgrade", "pkg_install"}

\* C8 as claimed: in the Termux installer a failed pkg update, pkg upgrade or pkg
\* install does not end the run: a warning follows on the error stream and the run
\* goes on to the Source Acquirer (refuted: under set -e the run ends at the failed
\* pkg command, and the script holds no warning).
C8_Original ==
  installer = "termux" =>
    \A i \in Idx : (IsCmd(log[i], "pkg") /\ Failed(log[i])) =>
      /\ ~(pc = "exited" /\ exitAt \in TermuxPkgPcs)
      /\ \E j \in (i + 1)..Len(log) : log[j].k = "stderr"

\* ------------------------------------------------------------ C9
ExpectedRef == IF NonEmpty(startEnv.FERRET_REF) THEN startEnv.FERRET_REF.val ELSE DefaultRef
Fetches == {i \in Idx : IsFetch(log[i])}
Resets == {i \in Idx : IsReset(log[i])}
Clones == {i \in Idx : IsClone(log[i])}
\* git clone --depth 1 --branch <ref>
ShallowOn(e, ref) ==
  \E j \in 1..Len(e.v) :
    /\ j + 3 <= Len(e.v)
    /\ SubSeq(e.v, j, j + 3) = <<"--depth", "1", "--branch">> \o ref

\* C9: in a run of either installer that reached the Source Acquirer, if
\* SRC_DIR/.git was a directory then fetch is the command run, a reset is run only
\* after the fetch and no clone is ever run; otherwise no fetch and no reset is ever
\* run and the only git command is one clone, shallow and restricted to REF.  A run
\* that got through the Source Acquirer ran exactly fetch then reset, or exactly one
\* clone.
C9_CloneOrUpdate ==
  ReachedAcquirer =>
    IF hadGit
      THEN /\ Clones = {}
           /\ Cardinality(Fetches) = (IF pc = "fetch" THEN 0 ELSE 1)
           /\ Cardinality(Resets) <= 1
           /\ \A r \in Resets : \E f \in Fetches : f < r
           /\ AcquirerDone => Cardinality(Resets) = 1
      ELSE /\ Fetches = {} /\ Resets = {}
           /\ Cardinality(Clones) <= 1
           /\ \A c \in Clones : ShallowOn(log[c], ExpectedRef)
           /\ AcquirerDone => Cardinality(Clones) = 1

C9_Witness ==
  /\ hadGit /\ AcquirerDone /\ Cardinality(Resets) = 1 /\ Clones = {}

C9_WitnessFresh ==
  /\ ~hadGit /\ AcquirerDone /\ Cardinality(Clones) = 1 /\ startEnv.FERRET_REF = Val(DevRef)

\* ------------------------------------------------------------ C10
\* C10 as claimed: in either installer a failed git fetch does not end the run, and
\* the reset to origin/<REF> is still run (refuted for install-termux.sh, whose
\* line 19 lacks the `|| true` of install-arch.sh line 38).
C10_Original ==
  \A i \in Idx : (IsFetch(log[i]) /\ Failed(log[i])) =>
    /\ ~(pc = "exited" /\ exitAt = "fetch")
    /\ pc # "reset" => \E j \in (i + 1)..Len(log) : IsReset(log[j])

\* What does hold: the tolerance of install-arch.sh.
C10_ArchOnly ==
  installer = "arch" =>
    \A i \in Idx : (IsFetch(log[i]) /\ Failed(log[i])) =>
      /\ ~(pc = "exited" /\ exitAt = "fetch")
      /\ pc # "reset" => \E j \in (i + 1)..Len(log) : IsReset(log[j])

\* ------------------------------------------------------------ C11
\* C11: in both installers a git reset --hard or a git clone that fails is the last
\* thing the run does: the run has ended there with a non-zero status, and its
\* trace holds no cd, no rm of the stale directories and no go run.
C11_ResetCloneFatal ==
  \A i \in Idx :
    ((IsReset(log[i]) \/ IsClone(log[i])) /\ Failed(log[i])) =>
      /\ ExitedNonZero
      /\ exitStatus = <<log[i].rc>>
      /\ exitAt = (IF IsReset(log[i]) THEN "reset" ELSE "clone")
      /\ i = Len(log)
      /\ \A j \in Idx : ~IsCmd(log[j], "cd") /\ ~IsCmd(log[j], "rm") /\ ~IsBuild(log[j])
      /\ cwd = StartDir

\* A reset that failed on an existing clone, in either installer.
C11_Witness ==
  /\ pc = "exited" /\ exitAt = "reset" /\ hadGit
  /\ Failed(log[Len(log)]) /\ IsReset(log[Len(log)])

C11_WitnessClone ==
  /\ pc = "exited" /\ exitAt = "clone" /\ ~hadGit /\ installer = "termux"
  /\ Failed(log[Len(log)]) /\ IsClone(log[Len(log)])

\* ------------------------------------------------------------ C12
FetchSucceeded == \E i \in Idx : IsFetch(log[i]) /\ ~Failed(log[i])
FetchFailed == \E i \in Idx : IsFetch(log[i]) /\ Failed(log[i])

\* C12: once a run that found SRC_DIR/.git is past the Source Acquirer, the tree
\* is clean at the commit of origin/<REF>: the remote's commit of this moment
\* when the run's fetch succeeded, and the commit the remote-tracking ref already
\* held before the run when the fetch failed; it is never ahead of the remote.
C12_RepoState ==
  (hadGit /\ AcquirerDone) =>
    LET c == fs[SrcDir]
    IN  /\ c.head # NoCommit
        /\ c.head = c.tracking
        /\ ~c.dirty
        /\ c.head[1] = c.origin /\ c.head[2] = ExpectedRef
        /\ c.head[3] <= remoteVer
        /\ FetchSucceeded => c.head = CommitAt(c.origin, ExpectedRef, remoteVer)
        /\ ~FetchSucceeded => c.head = prev.fs[SrcDir].tracking

\* The remote moved on, the fetch failed and was passed over, and the reset left
\* the tree at the commit fetched before.
C12_Witness ==
  /\ hadGit /\ AcquirerDone /\ FetchFailed
  /\ fs[SrcDir].head[3] < remoteVer

\* The remote moved on and the tree followed it, an edit made in between gone.
C12_WitnessMoved ==
  /\ hadGit /\ AcquirerDone /\ FetchSucceeded
  /\ prev.fs[SrcDir].head[3] < fs[SrcDir].head[3]

\* ------------------------------------------------------------ C13
\* C13: at the moment go run tools/main.go is about to be started the run is in
\* SRC_DIR and none of bin/, libs/, gen/, gen_debug/, gen_keep/ exists there; and
\* a run that started the build ran, before it and after every git command, one
\* successful rm -rf naming all five.
C13_CleanBeforeBuild ==
  /\ pc \in {"export", "build"} =>
        /\ cwd = SrcDir
        /\ \A d \in StaleDirs : d \notin fs[SrcDir].stale
  /\ BuildInvoked =>
        \E r \in Idx :
          /\ IsCmd(log[r], "rm") /\ log[r].rc = 0
          /\ StaleDirs \subseteq Tokens(log[r])
          /\ \A i \in Idx : IsCmd(log[i], "git") => i < r
          /\ \A i \in Idx : IsBuild(log[i]) => r < i

\* The build is about to start in a tree where an earlier run had left all five.
C13_Witness ==
  /\ pc = "build" /\ hadGit /\ removed = StaleDirs

\* ------------------------------------------------------------ C14
CompletionMsg == Lit("[check mark] Installation complete!")
ReadyHead == "[check mark] The 'ferret' command should be available now ("
AppendHead == "To use the 'ferret' command, add to your PATH:"
\* A line of the log that is the completion message or opens a Path Advisor message.
IsSuccessLine(e) ==
  /\ e.k = "stdout" /\ Len(e.v) > 0
  /\ (e.v = CompletionMsg \/ e.v[1] \in {ReadyHead, AppendHead})

\* C14: the build entrypoint is started with FERRET_INSTALL_DIR set to the
\* destination the script resolved at its start, and a build that returns
\* non-zero is the end of the run: the run exits with that status and its output
\* has neither the completion message nor a Path Advisor message.
C14_BuildEnvAndFatal ==
  /\ pc = "build" => env.FERRET_INSTALL_DIR = Val(sh.DEST_DIR.val)
  /\ BuildInvoked =>
        /\ buildEnv.FERRET_INSTALL_DIR = Val(sh.DEST_DIR.val)
        /\ installer = "arch" =>
              \E i \in Idx : log[i] = Stdout(Lit("Installing Ferret to ")
                                              \o buildEnv.FERRET_INSTALL_DIR.val)
  /\ \A i \in Idx :
        (IsBuild(log[i]) /\ Failed(log[i])) =>
          /\ ExitedNonZero /\ exitAt = "build" /\ exitStatus = <<log[i].rc>>
          /\ i = Len(log)
          /\ \A j \in Idx : ~IsSuccessLine(log[j])

\* A build that failed, having been given a destination the user chose.
C14_Witness ==
  /\ pc = "exited" /\ exitAt = "build" /\ Failed(log[Len(log)])
  /\ startEnv.FERRET_INSTALL_DIR = Val(OptDir)
  /\ buildEnv.FERRET_INSTALL_DIR = Val(OptDir)

\* A build started with a destination the script defaulted.
C14_WitnessDefault ==
  /\ BuildInvoked /\ ~startEnv.FERRET_INSTALL_DIR.set
  /\ buildEnv.FERRET_INSTALL_DIR.set

\* ------------------------------------------------------------ C15
\* C15: whenever CC is set in the environment the run inherited, the build
\* entrypoint is started with CC at that same value.
C15_Original ==
  (BuildInvoked /\ startEnv.CC.set) => buildEnv.CC = startEnv.CC

\* What the scripts do instead: the build is always started with CC=clang.
C15_AlwaysClang ==
  BuildInvoked => buildEnv.CC = Val(Lit("clang"))

\* ------------------------------------------------------------ C16
\* The run follows a successful run of the same installer, with the same
\* configuration and the remote where it was.
SecondOfTwo ==
  runs > 1 /\ prev.ok /\ prev.env = startEnv /\ prev.ver = remoteVer

\* The build of this run left what the build of the run before left.
SameBuildOutcome ==
  /\ fs[SrcDir].stale = prev.fs[SrcDir].stale
  /\ (DestDir \in installed) = (DestDir \in prev.installed)

\* What C16 says of a run, given that it is the second of two.
Idempotent ==
  /\ ReachedAcquirer => (hadGit /\ \A i \in Idx : ~IsClone(log[i]))
  /\ pc \in {"export", "build", "final", "advise"} =>
        removed = prev.fs[SrcDir].stale
  \* the one step whose success rests on what the first run left can succeed
  /\ pc = "reset" => HasTracking(fs[SrcDir], Ref)
  /\ (ExitedZero /\ SameBuildOutcome) => (fs = prev.fs /\ installed = prev.installed)

\* C16: the second of two runs in succession (same configuration, pinned ref
\* unchanged, build entrypoint behaving the same) takes the existing-clone path,
\* removes the stale directories the first build left, can succeed as the first
\* did, and ends with the source tree and the destination as the first left them.
C16_Original ==
  SecondOfTwo => Idempotent

\* The same for a FERRET_REF that names a branch.
C16_BranchRef ==
  (SecondOfTwo /\ ExpectedRef \in RemoteBranches) => Idempotent

\* ------------------------------------------------------------ C17
\* The steps C17 calls tolerated: a dependency install not run as root, and the fetch.
ToleratedStep(e) == IsCmd(e, "sudo") \/ IsCmd(e, "pkg") \/ IsFetch(e)
\* A fatal step failed.  Beside the steps C17 lists (pacman as root, reset, clone,
\* cd, rm, the build) the mkdir of install-arch.sh and the shell's own failure on
\* an unset HOME are counted as fatal.
FatalStepFailed ==
  \/ \E i \in Idx : Failed(log[i]) /\ ~ToleratedStep(log[i])
  \/ \E i \in Idx : log[i] = UnsetMsg

\* C17: a run that has ended has status 0 exactly when the gate passed and no
\* fatal step failed, and a non-zero status otherwise; so a run whose only failures
\* are tolerated ones (unprivileged dependency install, fetch) ends with status 0.
C17_Original ==
  pc = "exited" =>
    /\ ExitedZero <=> (GatePassed /\ ~FatalStepFailed)
    /\ ~ExitedZero => ExitedNonZero

\* What does hold: the same for install-arch.sh alone.
C17_ArchOnly ==
  installer = "arch" => C17_Original

\* ------------------------------------------------------------ C18
BuildReturnedZero == \E i \in Idx : IsBuild(log[i]) /\ ~Failed(log[i])

\* C18: a run whose build entrypoint returned 0 without the binary being under
\* <destination>/bin ends with a non-zero status and no message of success.
C18_Original ==
  (pc = "exited" /\ BuildReturnedZero /\ DestDir \notin installed) =>
    /\ ExitedNonZero
    /\ \A j \in Idx : ~IsSuccessLine(log[j])

\* What the scripts do instead: whatever follows a build that returned 0 is output
\* only, and the run ends with status 0.
C18_NoVerification ==
  (pc = "exited" /\ BuildReturnedZero) =>
    (ExitedZero /\ \E j \in Idx : IsSuccessLine(log[j]))

\* ------------------------------------------------------------ C19
\* C19: when a run that resolved its destination has ended without its build
\* entrypoint having returned 0 (it failed, or was never started), no binary is
\* under <destination>/bin, whatever an earlier run installed there.
C19_Original ==
  (pc = "exited" /\ sh.DEST_DIR.set /\ ~BuildReturnedZero) => DestDir \notin installed

\* ------------------------------------------------------------ C20
ReadyEmitted == \E i \in Idx : log[i].k = "stdout" /\ Len(log[i].v) > 0 /\ log[i].v[1] = ReadyHead
AppendEmitted == \E i \in Idx : log[i].k = "stdout" /\ Len(log[i].v) > 0 /\ log[i].v[1] = AppendHead
\* export PATH="<destination>/bin:$PATH", as a line of the advice.
ExportLine(dest) == Lit("  export PATH=\"") \o dest \o Lit("/bin:$PATH\"")
\* <destination>/bin is an entry of the PATH the run inherited.
InInheritedPath(dest) ==
  /\ startEnv.PATH.set
  /\ \E n \in 1..Len(startEnv.PATH.val) : startEnv.PATH.val[n] = dest \o Lit("/bin")

\* The destination is the prefix of the environment: PREFIX, or the default
\* Termux prefix (which is also what PREFIX defaults to).
AtDefaultPrefix(dest) ==
  \/ dest = TermuxDefaultPrefix
  \/ NonEmpty(startEnv.PREFIX) /\ dest = startEnv.PREFIX.val

\* C20: a Termux run that reaches the Path Advisor emits the "ready" variant
\* exactly when <destination>/bin is an entry of the inherited PATH or the
\* destination is the default prefix, and otherwise the "append" variant with
\* the line export PATH="<destination>/bin:$PATH".
C20_Original ==
  (installer = "termux" /\ ExitedZero) =>
    LET searched == InInheritedPath(DestDir) \/ AtDefaultPrefix(DestDir)
    IN  /\ ReadyEmitted <=> searched
        /\ AppendEmitted <=> ~searched
        /\ AppendEmitted => \E i \in Idx : log[i] = Stdout(ExportLine(DestDir))

\* What the script does instead: it compares the destination with PREFIX and
\* with the default prefix, and never reads PATH.
C20_ByPrefix ==
  (installer = "termux" /\ ExitedZero) =>
    LET atPrefix == AtDefaultPrefix(DestDir)
    IN  /\ ReadyEmitted <=> atPrefix
        /\ AppendEmitted <=> ~atPrefix
        /\ AppendEmitted => \E i \in Idx : log[i] = Stdout(ExportLine(DestDir))

\* ------------------------------------------------------------ C21
\* The line export PATH="<destination>/bin:$PATH", indented or not.
IsExportLine(e, dest) ==
  /\ e.k = "stdout"
  /\ \E head \in {"export PATH=\"", "  export PATH=\""} :
       e.v = Lit(head) \o dest \o Lit("/bin:$PATH\"")

\* C21: a run of install-arch.sh that is not root, installs to the default
\* ~/.local, inherited a PATH without ~/.local/bin and exits 0 has written the
\* "append" advice with the line export PATH="<destination>/bin:$PATH".
C21_Original ==
  (/\ installer = "arch" /\ ExitedZero /\ uid # RootUid
   /\ DestDir = HomeDir \o LocalSuffix
   /\ ~InInheritedPath(DestDir)) =>
    /\ AppendEmitted
    /\ \E i \in Idx : IsExportLine(log[i], DestDir)

\* What install-arch.sh writes after a successful build: an empty line and the
\* completion message, and no advice about PATH.
C21_NoAdvice ==
  (installer = "arch" /\ ExitedZero) =>
    /\ ~ReadyEmitted /\ ~AppendEmitted
    /\ \A i \in Idx : ~IsExportLine(log[i], DestDir)
    /\ log[Len(log)] = Stdout(CompletionMsg)

\* ------------------------------------------------------------ C22
\* C22: a run whose build entrypoint returned 0 ends with status 0 having written
\* exactly one of the two advice variants; a run whose build did not return 0 has
\* written neither.
C22_Original ==
  /\ (pc = "exited" /\ BuildReturnedZero) =>
        /\ ExitedZero
        /\ ReadyEmitted # AppendEmitted
  /\ ~BuildReturnedZero => (~ReadyEmitted /\ ~AppendEmitted)

\* What does hold: the same for install-termux.sh alone.
C22_TermuxOnly ==
  installer = "termux" => C22_Original

\* ------------------------------------------------------------ C23
\* C23: once a run of the binary flow has ended, on the normal path, on a fatal
\* error or on a signal, the workspace it made no longer exists; and a workspace
\* exists only in a run that made one.
C23_WorkspaceReleased ==
  /\ pc = "exited" => ~bflow.workspace
  /\ bflow.workspace => bflow.made

\* A run that had made its workspace and was ended by a signal.
C23_Witness ==
  pc = "exited" /\ bflow.made /\ bflow.path = "signal" /\ bflow.downloaded

C23_WitnessError ==
  pc = "exited" /\ bflow.made /\ bflow.path = "error" /\ exitAt = "b_download"

C23_WitnessNormal ==
  pc = "exited" /\ bflow.made /\ bflow.path = "normal" /\ exitStatus = <<0>>

\* ------------------------------------------------------------ C24
\* The asset C24 names for the detected architecture.
WantedAsset == IF bflow.arch = "AMD64" THEN LinuxAmd64 ELSE LinuxArm64
Downloads == {i \in Idx : IsCmd(log[i], "download")}
IsReleaseNotFound(e) == e.k = "stderr" /\ e.v[1] = "ReleaseNotFound: "

\* C24: in the binary flow the asset selected, and the only one ever downloaded,
\* is linux-amd64 for AMD64 and linux-arm64 for ARM64, taken from the listing;
\* when the listing has no asset for the detected architecture the run ends at
\* the selection with ReleaseNotFound and a non-zero status, having selected and
\* downloaded nothing, whatever other assets the listing holds.
C24_AssetSelection ==
  /\ bflow.selected # NoAsset =>
        (bflow.selected = WantedAsset /\ WantedAsset \in bflow.assets)
  /\ \A i \in Downloads :
        log[i].v = <<"download">> \o WantedAsset /\ WantedAsset \in bflow.assets
  /\ (bflow.arch \in {"AMD64", "ARM64"} /\ WantedAsset \notin bflow.assets) =>
        /\ pc \notin {"b_download", "b_commit", "b_advise"}
        /\ bflow.selected = NoAsset /\ Downloads = {} /\ ~bflow.downloaded
        /\ (pc = "exited" /\ bflow.path = "error" /\ exitAt = "b_select") =>
              (ExitedNonZero /\ IsReleaseNotFound(log[Len(log)]))
  /\ (pc = "exited" /\ bflow.path = "error" /\ exitAt = "b_select") =>
        WantedAsset \notin bflow.assets

\* No asset for AMD64 in a listing that holds assets of other architectures.
C24_Witness ==
  /\ pc = "exited" /\ exitAt = "b_select" /\ bflow.path = "error"
  /\ bflow.arch = "AMD64" /\ bflow.assets = {LinuxArm64, DarwinArm64}

\* Both assets listed, and the one of the machine downloaded.
C24_WitnessBoth ==
  /\ {LinuxAmd64, LinuxArm64} \subseteq bflow.assets
  /\ machineType = "arm64" /\ bflow.downloaded /\ bflow.selected = LinuxArm64

\* ------------------------------------------------------------ C25
AnyCmd == \E i \in Idx : log[i].k = "cmd"
NamesMachineType(e) == \E j \in 1..Len(e.v) : e.v[j] = machineType

C25_WitnessArm64 == machineType = "arm64" /\ bflow.arch = "ARM64" /\ bflow.downloaded
C25_WitnessAarch64 == machineType = "aarch64" /\ bflow.arch = "ARM64" /\ bflow.downloaded
C25_WitnessAmd64 == machineType = "x86_64" /\ bflow.arch = "AMD64" /\ bflow.downloaded

\* ------------------------------------------------------------ C26
RmRan == \E i \in Idx : IsCmd(log[i], "rm")
CdFailed == \E i \in Idx : IsCmd(log[i], "cd") /\ Failed(log[i])
\* p is q or lies below it
Under(p, q) == Len(q) <= Len(p) /\ SubSeq(p, 1, Len(q)) = q
\* The paths the operands of rm name, resolved against the working directory.
RmTargetPaths == {cwd \o <<"/", t>> : t \in RmTargets}

\* The removal runs only in SRC_DIR, and a failed cd ends the run with nothing
\* removed.
CleanupInSrcDir ==
  /\ (pc = "clean" \/ RmRan) => cwd = SrcDir
  /\ CdFailed => (ExitedNonZero /\ exitAt = "cd" /\ ~RmRan /\ removed = {})
  /\ removed # {} => RmRan

\* C26 as stated: the removal runs only in SRC_DIR, a failed cd removes nothing,
\* and no removed path lies under the destination directory or outside SRC_DIR.
C26_Original ==
  /\ CleanupInSrcDir
  /\ RmRan => \A p \in RmTargetPaths : Under(p, SrcDir) /\ ~Under(p, DestDir)

\* C26 amended: the removal runs only in SRC_DIR, a failed cd removes nothing,
\* and every removed path is one of the five directories directly inside
\* SRC_DIR (which may itself lie under the destination directory).
C26_InsideSrcDir ==
  /\ CleanupInSrcDir
  /\ RmRan =>
        /\ RmTargetPaths = {SrcDir \o <<"/", t>> : t \in StaleDirs}
        /\ \A p \in RmTargetPaths : Under(p, SrcDir)
        /\ removed \subseteq StaleDirs

\* A failed cd into an existing clone that holds stale directories.
C26_Witness ==
  /\ CdFailed /\ pc = "exited" /\ hadGit
  /\ SrcDir \in SrcPaths /\ fs[SrcDir].stale = StaleDirs

\* The five directories removed from a SRC_DIR below the destination.
C26_WitnessUnderDest ==
  /\ RmRan /\ removed = StaleDirs /\ Under(SrcDir, DestDir)

\* ... and from a SRC_DIR that is not below it.
C26_WitnessApart ==
  /\ RmRan /\ removed = StaleDirs /\ ~Under(SrcDir, DestDir)

\* ------------------------------------------------------------ C27
IsGit(e) == IsCmd(e, "git")
\* fetch names the remote, reset its remote-tracking ref origin/<REF>
NamesOrigin(e) == Tokens(e) \cap {"origin", "origin/"} # {}
NamesRepo(e) == \E j \in 1..Len(Repo) : Repo[j] \in Tokens(e)
\* A step keeps every existing clone and the URL of its origin.
OriginKept == \A p \in SrcPaths : fs[p].git => (fs'[p].git /\ fs'[p].origin = fs[p].origin)

\* C27: a run that found SRC_DIR/.git issues no clone, and its git commands name
\* the remote "origin" and never the value of REPO; the commits of a clone are all
\* of its origin; and no step of any run changes the origin of an existing
\* clone, whatever FERRET_REPO is set to from one run to the next.
C27_RepoOnlyOnClone ==
  /\ [](hadGit =>
          \A i \in Idx : IsGit(log[i]) =>
             /\ ~IsClone(log[i])
             /\ NamesOrigin(log[i])
             /\ ~NamesRepo(log[i]))
  /\ [](\A p \in SrcPaths : fs[p].git =>
          /\ fs[p].head # NoCommit /\ fs[p].head[1] = fs[p].origin
          /\ fs[p].tracking # NoCommit => fs[p].tracking[1] = fs[p].origin)
  /\ [][OriginKept]_vars

\* The second run, started with another FERRET_REPO than the clone was made
\* from, fetched and reset and went on to succeed.
C27_Witness ==
  /\ runs = 2 /\ hadGit /\ ExitedZero /\ FetchSucceeded
  /\ Repo # fs[SrcDir].origin
  /\ fs[SrcDir].head = CommitAt(fs[SrcDir].origin, Ref, remoteVer)

\* The fresh-clone path does take REPO.
C27_WitnessClone ==
  /\ ~hadGit /\ AcquirerDone /\ Repo = ForkRepo /\ fs[SrcDir].origin = ForkRepo

====
